---- MODULE Spec2Model ----
(***************************************************************************)
(* Model of cleanup_old_wallpapers.py: the filename date parser, the       *)
(* old-file selector, the cleanup orchestrator and the command-line entry  *)
(* point, run over a directory whose file names are real strings.          *)
(***************************************************************************)
EXTENDS Integers, Sequences, FiniteSets, TLC

VARIABLES
    dir,            \* names of the entries of the target directory
    clock,          \* wall clock, in ticks (TicksPerDay ticks per calendar day)
    args,           \* argparse namespace of the current invocation of main
    pc,             \* position of the current invocation of main
    old_files,      \* cleanup_old_wallpapers: old_files
    idx,            \* cleanup_old_wallpapers: position of the for loop in old_files
    deleted_count,  \* cleanup_old_wallpapers: deleted_count (then main's)
    stdout,         \* lines printed by the current invocation
    status,         \* process exit status of the current invocation
    attempted,      \* names unlink() was called on in the current invocation
    unlinked,       \* names unlink() removed in the current invocation
    dir_start,      \* dir when the current invocation started
    scan,           \* what find_old_wallpapers saw: [dir, now]
    prev,           \* what the previous invocation of the session left, if any
    filename,       \* parse_date_from_filename: its argument
    parse_result    \* parse_date_from_filename: its return value

vars == <<dir, clock, args, pc, old_files, idx, deleted_count, stdout, status,
          attempted, unlinked, dir_start, scan, prev, filename, parse_result>>

-----------------------------------------------------------------------------
(* Bounds of the model *)

MaxFiles == 2       \* entries in the directory
MaxAge == 1         \* largest --max-age
MaxTicks == 3       \* clock ticks that pass during a session
TicksPerDay == 2    \* clock readings per calendar day; reading 0 is midnight

-----------------------------------------------------------------------------
(* Calendar arithmetic of datetime (proleptic Gregorian) *)

None == 0           \* Python's None; no datetime has ordinal 0
MINYEAR == 1
MAXYEAR == 9999

Digits == <<"0", "1", "2", "3", "4", "5", "6", "7", "8", "9">>

IsDigit(c) == \E i \in 1..10 : Digits[i] = c

DigitVal(c) == (CHOOSE i \in 1..10 : Digits[i] = c) - 1

\* int() of a string of decimal digits
RECURSIVE ToInt(_)
ToInt(s) ==
    IF Len(s) = 0 THEN 0
    ELSE 10 * ToInt(SubSeq(s, 1, Len(s) - 1)) + DigitVal(SubSeq(s, Len(s), Len(s)))

IsLeap(y) == y % 4 = 0 /\ (y % 100 # 0 \/ y % 400 = 0)

DaysInMonth(y, m) ==
    IF m = 2 THEN (IF IsLeap(y) THEN 29 ELSE 28)
    ELSE IF m \in {4, 6, 9, 11} THEN 30 ELSE 31

DaysBeforeYear(y) ==
    (y - 1) * 365 + (y - 1) \div 4 - (y - 1) \div 100 + (y - 1) \div 400

RECURSIVE DaysBeforeMonth(_, _)
DaysBeforeMonth(y, m) ==
    IF m = 1 THEN 0 ELSE DaysBeforeMonth(y, m - 1) + DaysInMonth(y, m - 1)

\* datetime(y, m, d).toordinal()
Ymd2Ord(y, m, d) == DaysBeforeYear(y) + DaysBeforeMonth(y, m) + d

\* a datetime is the number of ticks since ordinal 0, midnight
Midnight(ord) == ord * TicksPerDay

DayOf(t) == t \div TicksPerDay

\* timedelta(days=n)
Timedelta(days) == days * TicksPerDay

-----------------------------------------------------------------------------
(* parse_date_from_filename *)

Char(s, i) == SubSeq(s, i, i)

AllDigits(s) == \A i \in 1..Len(s) : IsDigit(Char(s, i))

\* \d{4}-\d{2}-\d{2}
DateShape(s) ==
    /\ Len(s) = 10
    /\ AllDigits(SubSeq(s, 1, 4))
    /\ Char(s, 5) = "-"
    /\ AllDigits(SubSeq(s, 6, 7))
    /\ Char(s, 8) = "-"
    /\ AllDigits(SubSeq(s, 9, 10))

\* re.match(pattern, filename) with the device segment [^-]+ of length k:
\* the match starts at the first character and may end before the last
MatchWithDevice(name, k) ==
    /\ Len(name) >= 25 + k
    /\ SubSeq(name, 1, 10) = "wallpaper-"
    /\ \A i \in 11..(10 + k) : Char(name, i) # "-"
    /\ Char(name, 11 + k) = "-"
    /\ DateShape(SubSeq(name, 12 + k, 21 + k))
    /\ SubSeq(name, 22 + k, 25 + k) = ".png"

Matches(name) == \E k \in 1..Len(name) : MatchWithDevice(name, k)

\* match.group(1)
Group1(name) ==
    LET k == CHOOSE k \in 1..Len(name) : MatchWithDevice(name, k)
    IN  SubSeq(name, 12 + k, 21 + k)

\* datetime.strptime(s, '%Y-%m-%d') for s of the shape \d{4}-\d{2}-\d{2}:
\* the datetime at midnight, or None where strptime raises ValueError
Strptime(s) ==
    LET y == ToInt(SubSeq(s, 1, 4))
        m == ToInt(SubSeq(s, 6, 7))
        d == ToInt(SubSeq(s, 9, 10))
    IN  IF /\ y >= MINYEAR /\ y <= MAXYEAR
           /\ m >= 1 /\ m <= 12
           /\ d >= 1 /\ d <= DaysInMonth(y, m)
        THEN Midnight(Ymd2Ord(y, m, d))
        ELSE None

parse_date_from_filename(name) ==
    IF Matches(name) THEN Strptime(Group1(name)) ELSE None

-----------------------------------------------------------------------------
(* find_old_wallpapers *)

HasPrefix(name, p) == Len(name) >= Len(p) /\ SubSeq(name, 1, Len(p)) = p

HasSuffix(name, x) ==
    Len(name) >= Len(x) /\ SubSeq(name, Len(name) - Len(x) + 1, Len(name)) = x

\* fnmatch of a directory entry against 'wallpaper-*.png'
GlobMatch(name) ==
    /\ Len(name) >= Len("wallpaper-") + Len(".png")
    /\ HasPrefix(name, "wallpaper-")
    /\ HasSuffix(name, ".png")

\* the orders in which directory.glob may yield the entries it matches
RECURSIVE Orders(_)
Orders(S) ==
    IF S = {} THEN {<<>>}
    ELSE UNION {{<<x>> \o o : o \in Orders(S \ {x})} : x \in S}

GlobOrders(entries) == Orders({n \in entries : GlobMatch(n)})

\* IsOld with the cutoff itself counted as old (<= for <)
IsOld_inclusive(file_date, cutoff_date) == file_date # None /\ file_date <= cutoff_date

\* file_date and file_date < cutoff_date
IsOld(file_date, cutoff_date) == file_date # None /\ file_date < cutoff_date

\* Collect that keeps every entry with a date, whatever its age
RECURSIVE Collect_any_age(_, _)
Collect_any_age(order, cutoff_date) ==
    IF order = <<>> THEN <<>>
    ELSE LET file_path == Head(order)
             file_date == parse_date_from_filename(file_path)
             rest == Collect_any_age(Tail(order), cutoff_date)
         IN  IF file_date # None
             THEN <<[path |-> file_path, date |-> file_date]>> \o rest
             ELSE rest

\* the for loop of find_old_wallpapers over the entries in glob order
RECURSIVE Collect(_, _)
Collect(order, cutoff_date) ==
    IF order = <<>> THEN <<>>
    ELSE LET file_path == Head(order)
             file_date == parse_date_from_filename(file_path)
             rest == Collect(Tail(order), cutoff_date)
         IN  IF IsOld(file_date, cutoff_date)
             THEN <<[path |-> file_path, date |-> file_date]>> \o rest
             ELSE rest

\* position of x in a list sorted by date: after every element that is not later
RECURSIVE Insert(_, _)
Insert(sorted, x) ==
    IF sorted = <<>> THEN <<x>>
    ELSE IF Head(sorted).date <= x.date
         THEN <<Head(sorted)>> \o Insert(Tail(sorted), x)
         ELSE <<x>> \o sorted

\* sorted(old_files, key=lambda x: x[1]): a stable sort by date
RECURSIVE SortedByDate(_)
SortedByDate(files) ==
    IF files = <<>> THEN <<>>
    ELSE Insert(SortedByDate(SubSeq(files, 1, Len(files) - 1)), files[Len(files)])

find_old_wallpapers(order, max_age_days, now) ==
    SortedByDate(Collect(order, now - Timedelta(max_age_days)))

-----------------------------------------------------------------------------
(* The files a directory may hold and the clock of a session *)

DirNames ==
    { "wallpaper-laptop-2020-02-28.png",
      "wallpaper-a-2020-02-29.png",
      "wallpaper-b-2020-03-01.png",
      "wallpaper-phone-2099-01-01.png",
      "wallpaper-a-2020-02-30.png",
      "wallpaper-2020-01-01.png",
      "wallpaper-a-2020-02-28.png.bak.png",
      "notes.txt" }

Directories == {d \in SUBSET DirNames : Cardinality(d) <= MaxFiles}

\* the session starts on 2020-03-01 at midnight
ClockStart == Midnight(Ymd2Ord(2020, 3, 1))

ClockEnd == ClockStart + MaxTicks

-----------------------------------------------------------------------------
(* Exceptions and the handlers of main *)

\* issubclass(exc, cls) among the classes main meets
IsSubclass(exc, cls) ==
    \/ exc = cls
    \/ cls = "BaseException"
    \/ cls = "Exception" /\ exc \in {"OSError"}

\* the except clauses of main's try statement, in order
Handler(exc) ==
    IF IsSubclass(exc, "KeyboardInterrupt") THEN "except_kbd"
    ELSE IF IsSubclass(exc, "Exception") THEN "except_exc"
    ELSE "propagate"

\* positions of main inside the body of its try statement
TryBody == {"find", "report", "loop", "summary", "quiet"}

Running == {"parse_args", "check_dir", "except_kbd", "except_exc"} \cup TryBody

Terminal == {"exited", "traceback"}

\* exit status of an interpreter killed by an uncaught KeyboardInterrupt
SIGINT_STATUS == 130

NoArgs == [directory |-> "none", max_age |-> 0, dry_run |-> FALSE, quiet |-> FALSE]

Namespaces ==
    [directory : {"none", "exists", "missing"}, max_age : 0..MaxAge,
     dry_run : BOOLEAN, quiet : BOOLEAN]

NoScan == [dir |-> {}, now |-> 0]

NoRun ==
    [ran |-> FALSE, args |-> NoArgs, scanned |-> FALSE,
     scan |-> NoScan, selected |-> {}, unlinked |-> {}, dir_end |-> {}]

Emit(line) == stdout' = Append(stdout, line)

Paths(files) == {files[i].path : i \in 1..Len(files)}

-----------------------------------------------------------------------------
(* Initial state: a directory, a clock, and main about to parse its argv *)

Init ==
    /\ dir \in Directories
    /\ clock = ClockStart
    /\ args = NoArgs
    /\ pc = "parse_args"
    /\ old_files = <<>>
    /\ idx = 0
    /\ deleted_count = 0
    /\ stdout = <<>>
    /\ status = -1
    /\ attempted = <<>>
    /\ unlinked = {}
    /\ dir_start = dir
    /\ scan = NoScan
    /\ prev = NoRun
    /\ filename = ""
    /\ parse_result = None

-----------------------------------------------------------------------------
(* main *)

\* args = parser.parse_args(): a namespace, or exit status 2 on a bad argv;
\* the second invocation of a session is given the command line of the first
ParseArgs ==
    /\ pc = "parse_args"
    /\ \/ \E ns \in Namespaces :
            /\ prev.ran => ns = prev.args
            /\ args' = ns
            /\ pc' = "check_dir"
            /\ UNCHANGED status
       \/ /\ pc' = "exited"
          /\ status' = 2
          /\ UNCHANGED args
    /\ UNCHANGED <<dir, clock, old_files, idx, deleted_count, stdout, attempted,
                   unlinked, dir_start, scan, prev, filename, parse_result>>

\* DirectoryMissing with the negation of exists() dropped
DirectoryMissing_inverted(ns) == ns.directory # "none" /\ ns.directory = "exists"

\* args.directory and not args.directory.exists()
DirectoryMissing(ns) == ns.directory # "none" /\ ns.directory # "exists"

\* the directory check before the try statement
CheckDir ==
    /\ pc = "check_dir"
    /\ IF DirectoryMissing(args)
       THEN /\ Emit("dir_missing")
            /\ status' = 1
            /\ pc' = "exited"
       ELSE /\ pc' = "find"
            /\ UNCHANGED <<stdout, status>>
    /\ UNCHANGED <<dir, clock, args, old_files, idx, deleted_count, attempted,
                   unlinked, dir_start, scan, prev, filename, parse_result>>

\* old_files = find_old_wallpapers(directory, max_age_days)
Find ==
    /\ pc = "find"
    /\ \E order \in GlobOrders(dir) :
          old_files' = find_old_wallpapers(order, args.max_age, clock)
    /\ scan' = [dir |-> dir, now |-> clock]
    /\ pc' = "report"
    /\ UNCHANGED <<dir, clock, args, idx, deleted_count, stdout, status, attempted,
                   unlinked, dir_start, prev, filename, parse_result>>

\* the scan of the directory raises (the directory cannot be listed)
FindRaises ==
    /\ pc = "find"
    /\ pc' = Handler("OSError")
    /\ UNCHANGED <<dir, clock, args, old_files, idx, deleted_count, stdout, status,
                   attempted, unlinked, dir_start, scan, prev, filename, parse_result>>

\* the empty case, or the header line and the start of the loop
Report ==
    /\ pc = "report"
    /\ IF old_files = <<>>
       THEN /\ Emit("no_files")
            /\ pc' = "quiet"
            /\ idx' = idx
       ELSE /\ Emit("header")
            /\ pc' = "loop"
            /\ idx' = 1
    /\ deleted_count' = 0
    /\ UNCHANGED <<dir, clock, args, old_files, status, attempted, unlinked,
                   dir_start, scan, prev, filename, parse_result>>

\* ShouldUnlink that ignores dry_run
ShouldUnlink_always(dry_run) == TRUE

\* if not dry_run
ShouldUnlink(dry_run) == ~dry_run

\* Unlink that returns without removing the entry
Unlink_keeps(entries, file_path) == entries

\* file_path.unlink() when it succeeds
Unlink(entries, file_path) == entries \ {file_path}

\* deleted_count after the try statement around unlink
CountAfterUnlink(count, succeeded) == IF succeeded THEN count + 1 ELSE count

\* AfterOSError that leaves the loop at the first failure
AfterOSError_abort(i, n) == "summary"

\* the position after one iteration whose unlink raised OSError
AfterOSError(i, n) == IF i + 1 > n THEN "summary" ELSE "loop"

\* one iteration of the for loop over old_files
LoopStep ==
    /\ pc = "loop"
    /\ idx <= Len(old_files)
    /\ LET file_path == old_files[idx].path
       IN  IF ShouldUnlink(args.dry_run)
           THEN /\ attempted' = Append(attempted, file_path)
                /\ \/ /\ file_path \in dir          \* unlink succeeds
                      /\ dir' = Unlink(dir, file_path)
                      /\ unlinked' = unlinked \cup {file_path}
                      /\ deleted_count' = CountAfterUnlink(deleted_count, TRUE)
                      /\ Emit("file")
                      /\ pc' = IF idx + 1 > Len(old_files) THEN "summary" ELSE "loop"
                   \/ /\ dir' = dir                 \* OSError: permission denied
                      /\ unlinked' = unlinked
                      /\ deleted_count' = CountAfterUnlink(deleted_count, FALSE)
                      /\ stdout' = stdout \o <<"file", "error">>
                      /\ pc' = AfterOSError(idx, Len(old_files))
           ELSE /\ deleted_count' = deleted_count + 1
                /\ Emit("file")
                /\ pc' = IF idx + 1 > Len(old_files) THEN "summary" ELSE "loop"
                /\ UNCHANGED <<dir, attempted, unlinked>>
    /\ idx' = idx + 1
    /\ UNCHANGED <<clock, args, old_files, status, dir_start, scan, prev,
                   filename, parse_result>>

\* the summary line and the return of cleanup_old_wallpapers
Summary ==
    /\ pc = "summary"
    /\ IF ~args.dry_run /\ deleted_count > 0 THEN Emit("deleted_summary")
       ELSE IF args.dry_run THEN Emit("dry_summary")
       ELSE UNCHANGED stdout
    /\ pc' = "quiet"
    /\ UNCHANGED <<dir, clock, args, old_files, idx, deleted_count, status,
                   attempted, unlinked, dir_start, scan, prev, filename, parse_result>>

\* what main prints once cleanup_old_wallpapers has returned
QuietOutput(ns, count) == IF ns.quiet THEN <<"count">> ELSE <<>>

\* if args.quiet: print(deleted_count); sys.exit(0)
Quiet ==
    /\ pc = "quiet"
    /\ stdout' = stdout \o QuietOutput(args, deleted_count)
    /\ IF Handler("SystemExit") = "propagate"
       THEN /\ pc' = "exited"
            /\ status' = 0
       ELSE /\ pc' = Handler("SystemExit")
            /\ UNCHANGED status
    /\ UNCHANGED <<dir, clock, args, old_files, idx, deleted_count, attempted,
                   unlinked, dir_start, scan, prev, filename, parse_result>>

\* except KeyboardInterrupt
ExceptKbd ==
    /\ pc = "except_kbd"
    /\ Emit("interrupted")
    /\ status' = 1
    /\ pc' = "exited"
    /\ UNCHANGED <<dir, clock, args, old_files, idx, deleted_count, attempted,
                   unlinked, dir_start, scan, prev, filename, parse_result>>

\* except Exception
ExceptExc ==
    /\ pc = "except_exc"
    /\ Emit("error_during_cleanup")
    /\ status' = 1
    /\ pc' = "exited"
    /\ UNCHANGED <<dir, clock, args, old_files, idx, deleted_count, attempted,
                   unlinked, dir_start, scan, prev, filename, parse_result>>

\* an interrupt signal raises KeyboardInterrupt at the current position of main
Interrupt ==
    /\ pc \in Running
    /\ IF pc \in TryBody
       THEN /\ pc' = Handler("KeyboardInterrupt")
            /\ UNCHANGED status
       ELSE /\ pc' = "traceback"
            /\ status' = SIGINT_STATUS
    /\ UNCHANGED <<dir, clock, args, old_files, idx, deleted_count, stdout,
                   attempted, unlinked, dir_start, scan, prev, filename, parse_result>>

\* time passes before find_old_wallpapers reads datetime.now()
Tick ==
    /\ pc = "find"
    /\ clock < ClockEnd
    /\ clock' = clock + 1
    /\ UNCHANGED <<dir, args, pc, old_files, idx, deleted_count, stdout, status,
                   attempted, unlinked, dir_start, scan, prev, filename, parse_result>>

\* the record a finished invocation leaves in the session
RunRecord ==
    [ran |-> TRUE, args |-> args,
     scanned |-> scan # NoScan, scan |-> scan, selected |-> Paths(old_files),
     unlinked |-> unlinked, dir_end |-> dir]

\* the script is run again on the same directory
RunAgain ==
    /\ pc \in Terminal
    /\ ~prev.ran
    /\ prev' = RunRecord
    /\ args' = NoArgs
    /\ pc' = "parse_args"
    /\ old_files' = <<>>
    /\ idx' = 0
    /\ deleted_count' = 0
    /\ stdout' = <<>>
    /\ status' = -1
    /\ attempted' = <<>>
    /\ unlinked' = {}
    /\ dir_start' = dir
    /\ scan' = NoScan
    /\ UNCHANGED <<dir, clock, filename, parse_result>>

Next ==
    \/ Interrupt
    \/ ParseArgs
    \/ CheckDir
    \/ Find
    \/ FindRaises
    \/ Report
    \/ LoopStep
    \/ Summary
    \/ Quiet
    \/ ExceptKbd
    \/ ExceptExc
    \/ Tick
    \/ RunAgain

Spec == Init /\ [][Next]_vars

-----------------------------------------------------------------------------
(* parse_date_from_filename applied to file names of every shape *)

Prefixes == {"wallpaper-", "wallpaper", "Wallpaper-", "my-wallpaper-"}

Devices == {"a", "laptop", "", "a-b", "2020"}

DateStrings ==
    { "2020-02-28", "2020-02-29", "2019-02-29", "1900-02-29", "2000-02-29",
      "2020-02-30", "2020-04-31", "2020-12-31", "2020-13-01", "2020-00-10",
      "2020-01-00", "2020-01-32", "0000-01-01", "9999-12-31", "2020-1-01",
      "20200101", "2020_01_01" }

Suffixes == {".png", ".pngx", ".png.bak", ".png.png", ".jpg", "xpng", ".PNG", ""}

AllNames ==
    {p \o v \o "-" \o d \o x :
        p \in Prefixes, v \in Devices, d \in DateStrings, x \in Suffixes}
    \cup DirNames

InitParse ==
    /\ dir = {}
    /\ clock = ClockStart
    /\ args = NoArgs
    /\ pc = "parse_call"
    /\ old_files = <<>>
    /\ idx = 0
    /\ deleted_count = 0
    /\ stdout = <<>>
    /\ status = -1
    /\ attempted = <<>>
    /\ unlinked = {}
    /\ dir_start = {}
    /\ scan = NoScan
    /\ prev = NoRun
    /\ filename \in AllNames
    /\ parse_result = None

\* file_date = parse_date_from_filename(file_path.name)
ParseCall ==
    /\ pc = "parse_call"
    /\ parse_result' = parse_date_from_filename(filename)
    /\ pc' = "parse_return"
    /\ UNCHANGED <<dir, clock, args, old_files, idx, deleted_count, stdout, status,
                   attempted, unlinked, dir_start, scan, prev, filename>>

\* the next entry of the for loop of find_old_wallpapers
ParseNextEntry ==
    /\ pc = "parse_return"
    /\ filename' \in AllNames
    /\ parse_result' = None
    /\ pc' = "parse_call"
    /\ UNCHANGED <<dir, clock, args, old_files, idx, deleted_count, stdout, status,
                   attempted, unlinked, dir_start, scan, prev>>

NextParse == ParseCall \/ ParseNextEntry

SpecParse == InitParse /\ [][NextParse]_vars

-----------------------------------------------------------------------------
(* Properties *)

\* the current invocation has scanned the directory
Scanned == scan # NoScan

\* cleanup_old_wallpapers has returned to main, which went on to exit(0)
Returned == pc = "quiet" \/ (pc = "exited" /\ status = 0)

CutoffOfScan == scan.now - Timedelta(args.max_age)

\* the entries find_old_wallpapers is to return, as a set
Qualifies(name) ==
    /\ GlobMatch(name)
    /\ parse_date_from_filename(name) # None
    /\ parse_date_from_filename(name) < CutoffOfScan

\* C1: a dry run leaves the directory as it found it, calls unlink on nothing,
\* and returns the number of candidates find_old_wallpapers returned
C1_DryRunNeverMutates ==
    args.dry_run =>
        /\ dir = dir_start
        /\ attempted = <<>>
        /\ Returned => deleted_count = Len(old_files)

C1_Witness ==
    /\ args.dry_run
    /\ pc = "quiet"
    /\ Len(old_files) = 2
    /\ dir = dir_start

\* C2: in a live run every entry that is gone from the directory matched the
\* glob, had a parsed date strictly before the cutoff and was returned by
\* find_old_wallpapers; every other entry is still there
C2_NonCandidatesUntouched ==
    ~args.dry_run =>
        /\ dir \subseteq dir_start
        /\ \A name \in dir_start \ dir :
              /\ Scanned
              /\ Qualifies(name)
              /\ name \in Paths(old_files)

C2_Witness ==
    /\ ~args.dry_run
    /\ pc = "exited"
    /\ status = 0
    /\ unlinked # {}
    /\ \E name \in dir : ~GlobMatch(name)
    /\ dir_start \ dir = unlinked

\* C3: a live run that returns has called unlink on every candidate, in the
\* order of old_files (oldest first), whatever failed on the way, and returns
\* the number of entries that are gone
C3_FailureDoesNotAbort ==
    (~args.dry_run /\ Scanned /\ Returned) =>
        /\ attempted = [i \in 1..Len(old_files) |-> old_files[i].path]
        /\ \A i, j \in 1..Len(old_files) : i <= j => old_files[i].date <= old_files[j].date
        /\ deleted_count = Cardinality(dir_start \ dir)
        /\ deleted_count <= Len(old_files)
        /\ (deleted_count = Len(old_files)) = (Paths(old_files) \cap dir = {})

C3_Witness ==
    /\ ~args.dry_run
    /\ pc = "quiet"
    /\ Len(old_files) = 2
    /\ old_files[1].path \in dir
    /\ old_files[2].path \notin dir
    /\ old_files[1].date < old_files[2].date
    /\ deleted_count = 1

\* C4: when find_old_wallpapers has returned, old_files holds, once each and
\* sorted by date, exactly the entries that match the glob and whose parsed
\* date is strictly before now - max_age_days
C4_SelectorExact ==
    (Scanned /\ pc = "report") =>
        /\ Paths(old_files) = {name \in scan.dir : Qualifies(name)}
        /\ Len(old_files) = Cardinality(Paths(old_files))
        /\ \A i \in 1..Len(old_files) :
              old_files[i].date = parse_date_from_filename(old_files[i].path)
        /\ \A i, j \in 1..Len(old_files) : i <= j => old_files[i].date <= old_files[j].date

C4_Witness ==
    /\ pc = "report"
    /\ Len(old_files) = 1
    /\ \E name \in scan.dir :
          /\ parse_date_from_filename(name) = CutoffOfScan
          /\ name \notin Paths(old_files)

\* the file names the parser is to accept: wallpaper-<id>-<date>.png, whole
WellFormed(name) ==
    LET n == Len(name)
    IN  /\ n >= 26
        /\ SubSeq(name, 1, 10) = "wallpaper-"
        /\ SubSeq(name, n - 3, n) = ".png"
        /\ Char(name, n - 14) = "-"
        /\ \A i \in 11..(n - 15) : Char(name, i) # "-"
        /\ DateShape(SubSeq(name, n - 13, n - 4))
        /\ Strptime(SubSeq(name, n - 13, n - 4)) # None

EmbeddedDate(name) == Strptime(SubSeq(name, Len(name) - 13, Len(name) - 4))

\* C5: parse_date_from_filename returns the embedded date of every name of
\* the form wallpaper-<id>-<valid date>.png and None for every other string
C5_ParserExact ==
    pc = "parse_return" =>
        parse_result = (IF WellFormed(filename) THEN EmbeddedDate(filename) ELSE None)

\* C6: with a --directory that does not exist main never enters the try
\* statement, scans nothing, calls unlink on nothing, and its exit is 1
C6_MissingDirectoryExits1 ==
    args.directory = "missing" =>
        /\ pc \in {"check_dir", "exited", "traceback"}
        /\ ~Scanned
        /\ attempted = <<>>
        /\ dir = dir_start
        /\ pc = "exited" => (status = 1 /\ stdout = <<"dir_missing">>)

C6_Witness ==
    /\ args.directory = "missing"
    /\ pc = "exited"
    /\ status = 1

Messages == {"dir_missing", "interrupted", "error_during_cleanup"}

\* C7: every execution of main ends with exit status 0 or 1, never as an
\* uncaught exception; status 1 comes with a message; once the orchestrator
\* has returned the exit is 0; an interrupt in the run leads to status 1
C7_ThreeOutcomes ==
    /\ [](pc \in Terminal =>
            /\ pc = "exited"
            /\ status \in {0, 1}
            /\ status = 1 => (stdout # <<>> /\ stdout[Len(stdout)] \in Messages))
    /\ [][(pc = "quiet" /\ pc' # "quiet") => (pc' = "exited" /\ status' = 0)]_vars
    /\ [][(pc \in Running /\ pc' = "traceback") => FALSE]_vars

\* C8: a quiet run that succeeds has printed the count and nothing else
C8_QuietPrintsOnlyCount ==
    (args.quiet /\ pc = "exited" /\ status = 0) => stdout = <<"count">>

\* C9: the second of two live runs with the same max_age_days selects only
\* entries the first run left in the directory, none of which the first run
\* deleted, and calls unlink on none of those
C9_SecondRunDisjoint ==
    (prev.ran /\ ~prev.args.dry_run /\ ~args.dry_run /\ Scanned
        /\ args.max_age = prev.args.max_age) =>
        /\ Paths(old_files) \subseteq prev.dir_end
        /\ Paths(old_files) \cap prev.unlinked = {}
        /\ \A i \in 1..Len(attempted) : attempted[i] \notin prev.unlinked

C9_Witness ==
    /\ prev.ran /\ ~prev.args.dry_run /\ ~args.dry_run
    /\ args.max_age = prev.args.max_age
    /\ prev.unlinked # {}
    /\ pc = "summary"
    /\ attempted # <<>>

\* C10: two scans of the same directory content with the same max_age_days on
\* the same calendar day select the same entries, whatever the time of day
C10_DayGranularity ==
    (prev.scanned /\ Scanned /\ pc \in {"report", "loop", "summary", "quiet"}
        /\ prev.scan.dir = scan.dir
        /\ prev.args.max_age = args.max_age
        /\ DayOf(prev.scan.now) = DayOf(scan.now)) =>
        Paths(old_files) = prev.selected

====
